---------------------------- MODULE Spec2Model ----------------------------
(***************************************************************************)
(* Highlight Translator: the background translation relay (the local      *)
(* build of src/chrome-extension/manifest.ts and the hosted build of      *)
(* src/unnamed/part_000), chrome.storage.local, and the flashcard view.    *)
(*                                                                         *)
(* Strings the code inspects (text, language codes, the API key) are       *)
(* sequences of one-character strings so that trim, toLowerCase and        *)
(* concatenation are computed; a URL is the sequence of its parts          *)
(* (scheme, "www.", host, path).  An optional field is <<>> (absent) or    *)
(* <<v>> (present with value v).                                           *)
(***************************************************************************)
EXTENDS Integers, Sequences, FiniteSets, TLC

VARIABLES
    \* ---- chrome.storage.local
    enabled,        \* the stored "enabled" flag: <<>> (never set) or <<b>>
    targetLang,     \* the stored "targetLang": <<>> or <<code>>
    translations,   \* the stored "translations" list
    \* ---- the relay's module state
    API_KEY,        \* the credential the build was given
    cache,          \* the in-memory cache: a function cacheKey -> translation
    \* ---- message handlers in flight
    reqs,           \* request id -> the handler's state
    nextReq,        \* the next message to be delivered
    now,            \* Date.now()
    \* ---- the flashcard view (a React component: its state and its effects)
    siteGroups,     \* useState<SiteGroup[]>
    loading,        \* useState(true)
    dailyWords,     \* useState<TranslationItem[]>
    closureDaily,   \* dailyWords as captured by the load effect that last ran
    loadPc,         \* which storage.get of the load effect is pending
    importPc,       \* where importFlashcards is
    importFile,     \* the content of the file being imported
    importMerged,   \* the list importFlashcards is about to write
    imports,        \* the number of files chosen so far
    deletions,      \* the number of delete and clear commands given so far
    lastAlert,      \* the text of the last alert() of importFlashcards, if any
    reviewMode,     \* useState(false)
    reviewCards,    \* useState<TranslationItem[]>([])
    reviewSite,     \* useState('')
    currentCardIndex, \* useState(0)
    showTranslation,\* useState(false)
    isReversed,     \* useState(false)
    \* ---- the content script (module variables, the page's DOM and timers)
    tooltip,        \* the module's tooltip: <<>> (null) or <<element>>
    bodyTooltips,   \* the tooltip elements attached to document.body
    timers,         \* the pending auto-hide timeouts, each with the time it is due
    lastSelection,  \* the module's lastSelection
    sent,           \* the number of translate messages whose callback is pending
    pageNow,        \* the page's clock, in seconds
    nextTooltip,    \* the number of tooltip elements created so far
    \* ---- the hosted relay
    rememberMe,     \* the stored "rememberMe" flag (absent is FALSE)
    supabaseSession,\* the stored "supabaseSession": <<>> or <<session>>
    clientSession,  \* the session the Supabase client holds: <<>> or <<session>>
    flashcards,     \* the hosted flashcards table
    procs,          \* message or timer id -> the state of its async function
    nextMsg,        \* the next message or timer run of the hosted relay
    \* ---- history of the run (not program state)
    signedOut,      \* a sign-out was handled and no sign-in was requested since
    auth,           \* the user and the remember flag of the last successful sign-in
                    \* not followed by a sign-out request, and the number of such
                    \* changes
    reviewTrack,    \* the review since its startReview: the group's cards, the cards
                    \* presented, and whether only Next was pressed
    succeeded,      \* cache keys for which a request completed with a successful provider response
    saveCalls       \* the number of saveTranslation calls made so far

relayVars == <<enabled, targetLang, API_KEY, cache, reqs, nextReq, succeeded, saveCalls>>
reviewVars == <<reviewMode, reviewCards, reviewSite, currentCardIndex, showTranslation,
                isReversed, reviewTrack>>
viewVars == <<siteGroups, loading, dailyWords, closureDaily, loadPc, importPc, importFile,
              importMerged, imports, deletions, lastAlert, reviewVars>>
contentVars == <<tooltip, bodyTooltips, timers, lastSelection, sent, pageNow, nextTooltip>>

hostedVars == <<rememberMe, supabaseSession, clientSession, flashcards, procs, nextMsg,
                signedOut, auth>>

vars == <<enabled, targetLang, translations, API_KEY, cache, reqs, nextReq, now,
          siteGroups, loading, dailyWords, closureDaily, loadPc, importPc, importFile,
          importMerged, imports, deletions, lastAlert, succeeded, saveCalls,
          rememberMe, supabaseSession, clientSession, flashcards, procs, nextMsg,
          signedOut, auth, reviewVars, contentVars>>

---------------------------------------------------------------------------
(* Bounds of the model *)

MaxRequests == 2
MaxClock == 2

(* Program constants *)

KeepLatest == 100

DEFAULT_TARGET_LANG == <<"e", "n">>

---------------------------------------------------------------------------
(* Optional values and strings *)

None == <<>>
Some(v) == <<v>>
IsSome(o) == Len(o) = 1
Get(o) == o[1]

Min(a, b) == IF a <= b THEN a ELSE b

\* String.prototype.trim on a sequence of characters
RECURSIVE TrimLeft(_)
TrimLeft(s) ==
    IF s # <<>> /\ Head(s) = " " THEN TrimLeft(Tail(s)) ELSE s

RECURSIVE TrimRight(_)
TrimRight(s) ==
    IF s # <<>> /\ s[Len(s)] = " " THEN TrimRight(SubSeq(s, 1, Len(s) - 1)) ELSE s

\* a variant that tests the text as it was sent
Trim_Untrimmed(s) == s

Trim(s) == TrimRight(TrimLeft(s))

LowerChar(c) ==
    CASE c = "E" -> "e"
      [] c = "N" -> "n"
      [] c = "F" -> "f"
      [] c = "R" -> "r"
      [] OTHER -> c

\* String.prototype.toLowerCase
ToLowerCase(s) == [i \in 1..Len(s) |-> LowerChar(s[i])]

\* Array.prototype.slice(-n)
SliceLast(list, n) ==
    IF Len(list) <= n THEN list ELSE SubSeq(list, Len(list) - n + 1, Len(list))

\* x || d on an optional string: absent and "" are falsy
OrElse(o, d) == IF IsSome(o) /\ Get(o) # <<>> THEN Get(o) ELSE d

---------------------------------------------------------------------------
(* Inputs *)

MsgTexts == {None, Some(<<" ">>), Some(<<"a">>), Some(<<" ", "a">>)}
UrlA == <<"https://", "a.com", "/p">>
UrlB == <<"https://", "www.", "b.org", "/q">>
MsgUrls == {None, Some(UrlA)}
TabUrls == {None, Some(UrlB)}
StoredLangs == {None, Some(<<"E", "N">>), Some(<<"f", "r">>)}
ApiKeys == {<<>>, <<" ">>, <<"undefined">>, <<"k">>}
ProviderTexts == {<<>>, <<"x">>}

Requests == 1..MaxRequests

---------------------------------------------------------------------------
(* The local relay: src/chrome-extension/manifest.ts, lines 41-177 *)

\* `${text}|${targetLang}`
cacheKey(text, lang) == text \o <<"|">> \o lang

\* if (cache[cacheKey]): an entry that is the empty string is falsy
CacheHit(k) == k \in DOMAIN cache /\ cache[k] # <<>>

\* API_KEY && API_KEY.trim() !== '' && API_KEY !== 'undefined'
KeyValid == API_KEY # <<>> /\ Trim(API_KEY) # <<>> /\ API_KEY # <<"undefined">>

\* chrome.storage.local.get({ enabled: true, ... }): the default applies to a
\* flag that was never stored
StoredEnabled == IF IsSome(enabled) THEN Get(enabled) ELSE TRUE

\* (mutant: the cache is consulted before the enabled flag)
Branch_CacheFirst(text, key) ==
    IF text # <<>> /\ CacheHit(key) THEN "hit"
    ELSE IF ~StoredEnabled THEN "disabled"
    ELSE IF text = <<>> THEN "empty"
    ELSE IF KeyValid THEN "fetch"
    ELSE "mock"

\* The order of the listener's tests on the settings, the text and the cache
Branch(text, key) ==
    IF ~StoredEnabled THEN "disabled"
    ELSE IF text = <<>> THEN "empty"
    ELSE IF CacheHit(key) THEN "hit"
    ELSE IF KeyValid THEN "fetch"
    ELSE "mock"

\* { original, translation, date: Date.now(), url }: the relay stores no id
TranslationRecord(original, translation, date, url) ==
    [original |-> original, translation |-> translation, date |-> date, url |-> url,
     id |-> None]

\* (mutant: slice(0, 100) keeps the oldest records instead of the latest)
saveTranslation_KeepsOldest(list, original, translation, url, date) ==
    SubSeq(Append(list, TranslationRecord(original, translation, date, url)), 1,
           Min(Len(list) + 1, KeepLatest))

\* the list saveTranslation writes back, given the list it read
saveTranslation(list, original, translation, url, date) ==
    SliceLast(Append(list, TranslationRecord(original, translation, date, url)), KeepLatest)

\* what the provider can answer to one POST
ProviderOutcomes ==
    {[kind |-> "throw", text |-> <<>>], [kind |-> "status", text |-> <<>>],
     [kind |-> "empty", text |-> <<>>], [kind |-> "null", text |-> <<>>]}
    \cup {[kind |-> "text", text |-> t] : t \in ProviderTexts}

Response(translation, error, fromCache) ==
    [translation |-> translation, error |-> error, fromCache |-> fromCache]

IdleReq ==
    [pc |-> "new", msgText |-> None, msgUrl |-> None, tabUrl |-> None,
     text |-> <<>>, pageUrl |-> <<>>, key |-> <<>>,
     translation |-> <<>>, awaited |-> FALSE, updated |-> <<>>,
     resp |-> None, nresp |-> 0, fetched |-> FALSE, sawEnabled |-> TRUE,
     after |-> {}, ok |-> FALSE, outcome |-> ""]

\* sendResponse(x)
Respond(q, x) == [q EXCEPT !.resp = Some(x), !.nresp = @ + 1]

\* the handler has nothing left to run: its locals go out of scope
Finish(q) ==
    [q EXCEPT !.pc = "done", !.translation = <<>>, !.awaited = FALSE, !.pageUrl = <<>>,
              !.updated = <<>>]

\* chrome.storage.local.get({ ..., targetLang: DEFAULT_TARGET_LANG })
StoredTargetLang == IF IsSome(targetLang) THEN targetLang ELSE Some(DEFAULT_TARGET_LANG)

\* The listener is called with a translate message: it asks storage for the
\* settings and returns true.
DeliverFrom(r, texts, urls, tabs) ==
    /\ r = nextReq
    /\ reqs[r].pc = "new"
    /\ \E t \in texts, u \in urls, tab \in tabs :
          reqs' = [reqs EXCEPT ![r] = [@ EXCEPT !.pc = "config", !.msgText = t,
                                                !.msgUrl = u, !.tabUrl = tab,
                                                !.after = succeeded]]
    /\ nextReq' = nextReq + 1
    /\ UNCHANGED <<enabled, targetLang, translations, API_KEY, cache, now,
                   succeeded, saveCalls>>
    /\ UNCHANGED <<viewVars, hostedVars, contentVars>>

Deliver(r) == DeliverFrom(r, MsgTexts, MsgUrls, TabUrls)

\* The settings arrive: disabled, empty text, cache hit, or the miss path up
\* to its first await (the fetch, or the save of the mock translation).
OnConfig(r) ==
    /\ reqs[r].pc = "config"
    /\ LET q == reqs[r]
           text == Trim(OrElse(q.msgText, <<>>))
           lang == ToLowerCase(OrElse(StoredTargetLang, DEFAULT_TARGET_LANG))
           pageUrl == OrElse(q.msgUrl, OrElse(q.tabUrl, <<>>))
           key == cacheKey(text, lang)
           branch == Branch(text, key)
           \* the message is not read again: the handler keeps what it derived
           \* (the text and the key are recorded for every outcome)
           q1 == [q EXCEPT !.sawEnabled = (branch # "disabled"), !.text = text,
                           !.pageUrl = pageUrl, !.key = key,
                           !.msgText = None, !.msgUrl = None, !.tabUrl = None]
           mock == <<"[mock] ">> \o text
       IN  CASE branch = "disabled" ->
                /\ reqs' = [reqs EXCEPT ![r] =
                      Finish(Respond(q1, Response(None, Some("Extension is disabled"), FALSE)))]
                /\ UNCHANGED <<cache, saveCalls>>
             [] branch = "empty" ->
                /\ reqs' = [reqs EXCEPT ![r] =
                      Finish(Respond(q1, Response(Some(<<>>), None, FALSE)))]
                /\ UNCHANGED <<cache, saveCalls>>
             [] branch = "hit" ->
                /\ reqs' = [reqs EXCEPT ![r] =
                      [Respond(q1, Response(Some(cache[key]), None, TRUE))
                         EXCEPT !.pc = "saveGet", !.translation = cache[key],
                                !.awaited = FALSE]]
                /\ saveCalls' = saveCalls + 1
                /\ UNCHANGED cache
             [] branch = "fetch" ->
                /\ reqs' = [reqs EXCEPT ![r] = [q1 EXCEPT !.pc = "fetch", !.fetched = TRUE]]
                /\ UNCHANGED <<cache, saveCalls>>
             [] OTHER ->
                /\ cache' = (key :> mock) @@ cache
                /\ reqs' = [reqs EXCEPT ![r] =
                      [q1 EXCEPT !.pc = "saveGet", !.translation = mock, !.awaited = TRUE]]
                /\ saveCalls' = saveCalls + 1
    /\ UNCHANGED <<enabled, targetLang, translations, API_KEY, nextReq, now, succeeded>>
    /\ UNCHANGED <<viewVars, hostedVars, contentVars>>

\* a variant of the catch block that reports a structured failure
ErrorAnswer_Structured(kind) == Response(None, Some(<<"[error: ", kind, "]">>), FALSE)

\* the catch block's answer: the error's message inside the translation
ErrorAnswer(kind) == Response(Some(<<"[error: ", kind, "]">>), None, FALSE)

\* The provider answers (or the fetch rejects): an error goes to the catch
\* block, anything else is cached and handed to saveTranslation.
OnFetch(r) ==
    /\ reqs[r].pc = "fetch"
    /\ \E o \in ProviderOutcomes :
         LET q == [reqs[r] EXCEPT !.outcome = o.kind]
             translation ==
                 CASE o.kind = "text" -> o.text
                   [] o.kind = "null" -> <<"[null translation]">>
                   [] OTHER -> <<"[translation error: no translations in response]">>
         IN  IF o.kind \in {"throw", "status"}
             THEN /\ reqs' = [reqs EXCEPT ![r] =
                        Finish(Respond(q, ErrorAnswer(o.kind)))]
                  /\ UNCHANGED <<cache, saveCalls>>
             ELSE /\ cache' = (q.key :> translation) @@ cache
                  /\ reqs' = [reqs EXCEPT ![r] =
                        [q EXCEPT !.pc = "saveGet", !.translation = translation,
                                  !.awaited = TRUE, !.ok = (o.kind = "text")]]
                  /\ saveCalls' = saveCalls + 1
    /\ UNCHANGED <<enabled, targetLang, translations, API_KEY, nextReq, now, succeeded>>
    /\ UNCHANGED <<viewVars, hostedVars, contentVars>>

\* saveTranslation's storage.get callback: it computes the trimmed list
\* from the list it was given and issues storage.set.
SaveGet(r) ==
    /\ reqs[r].pc = "saveGet"
    /\ LET q == reqs[r]
       IN reqs' = [reqs EXCEPT ![r] =
              [q EXCEPT !.pc = "saveSet",
                        !.updated = saveTranslation(translations, q.text, q.translation,
                                                    q.pageUrl, now)]]
    /\ UNCHANGED <<enabled, targetLang, translations, API_KEY, cache, nextReq, now,
                   succeeded, saveCalls>>
    /\ UNCHANGED <<viewVars, hostedVars, contentVars>>

\* storage.set is applied and its callback resolves the promise; the miss
\* path, which awaited it, then answers.
SaveSet(r) ==
    /\ reqs[r].pc = "saveSet"
    /\ LET q == reqs[r]
       IN /\ translations' = q.updated
          /\ reqs' = [reqs EXCEPT ![r] =
                 IF q.awaited
                 THEN Finish(Respond(q, Response(Some(q.translation), None, FALSE)))
                 ELSE Finish(q)]
          /\ succeeded' = IF q.ok THEN succeeded \cup {q.key} ELSE succeeded
    /\ UNCHANGED <<enabled, targetLang, API_KEY, cache, nextReq, now, saveCalls>>
    /\ UNCHANGED <<viewVars, hostedVars, contentVars>>

\* Popup: toggleExtension(checked)
toggleExtension ==
    /\ \E checked \in BOOLEAN : enabled' = Some(checked)
    /\ UNCHANGED <<targetLang, translations, API_KEY, cache, reqs, nextReq, now,
                   succeeded, saveCalls>>
    /\ UNCHANGED <<viewVars, hostedVars, contentVars>>

\* Popup: changeTargetLang(lang)
changeTargetLang ==
    /\ \E lang \in StoredLangs \ {None} : targetLang' = lang
    /\ UNCHANGED <<enabled, translations, API_KEY, cache, reqs, nextReq, now,
                   succeeded, saveCalls>>
    /\ UNCHANGED <<viewVars, hostedVars, contentVars>>

\* time passes
Tick ==
    /\ now < MaxClock
    /\ now' = now + 1
    /\ UNCHANGED <<enabled, targetLang, translations, API_KEY, cache, reqs, nextReq,
                   succeeded, saveCalls>>
    /\ UNCHANGED <<viewVars, hostedVars, contentVars>>

\* review mode as the component's useState calls initialise it
ReviewClosed ==
    /\ reviewMode = FALSE
    /\ reviewCards = <<>>
    /\ reviewSite = ""
    /\ currentCardIndex = 0
    /\ showTranslation = FALSE
    /\ isReversed = FALSE
    /\ reviewTrack = [group |-> <<>>, seen |-> <<>>, nextOnly |-> FALSE]

\* the flashcard page is not open
ViewClosed ==
    /\ siteGroups = <<>>
    /\ loading = TRUE
    /\ dailyWords = <<>>
    /\ closureDaily = <<>>
    /\ loadPc = "closed"
    /\ importPc = "idle"
    /\ importFile = [kind |-> "none", items |-> <<>>, daily |-> <<>>]
    /\ importMerged = <<>>
    /\ imports = 0
    /\ deletions = 0
    /\ lastAlert = None
    /\ ReviewClosed

\* the content script has just been injected
ContentIdle ==
    /\ tooltip = None
    /\ bodyTooltips = {}
    /\ timers = {}
    /\ lastSelection = <<>>
    /\ sent = 0
    /\ pageNow = 0
    /\ nextTooltip = 0

---------------------------------------------------------------------------
(* The hosted relay: src/unnamed/part_000, lines 119-722.  A handler is    *)
(* suspended at each call to the backend or the provider; reads and writes *)
(* of chrome.storage.local and of the client's session run with the step   *)
(* that precedes them.                                                     *)

MaxMessages == 3
MaxHostedClock == 3
SessionLife == 2
ExpiresSoon == 2

Users == {"u1"}
Messages == 1..MaxMessages
AuthActions == {"signin", "signout", "getSession", "refreshSession", "other"}
HostedTexts == {Some(<<" ">>), Some(<<"a">>)}
HighlightedWords == {None, Some(<<"w">>)}
HostedKeys == {<<>>, <<"k">>}

\* a session as the backend issues it at the current time for user u
Session(u) == [user |-> u, expires_at |-> now + SessionLife]

AuthResponse(success, user, error) == [success |-> success, user |-> user, error |-> error]

IdleProc ==
    [kind |-> "none", action |-> "", pc |-> "new", user |-> "", remember |-> FALSE,
     msgText |-> None, highlightedWord |-> None, word |-> <<>>, pageUrl |-> <<>>,
     key |-> <<>>, translation |-> <<>>, fromCache |-> "no", stored |-> None,
     expired |-> FALSE, ret |-> "", userId |-> None, resp |-> None, nresp |-> 0,
     inserted |-> 0, insertFailed |-> FALSE, sawEnabled |-> TRUE, text |-> <<>>,
     afterSignOut |-> FALSE, epoch |-> 0]

\* the handler has nothing left to run: its locals go out of scope
HFinish(q) ==
    [q EXCEPT !.pc = "done", !.stored = None, !.expired = FALSE, !.ret = "",
              !.userId = None, !.pageUrl = <<>>, !.msgText = None,
              !.highlightedWord = None, !.remember = FALSE, !.user = ""]

\* chrome.storage.local.remove(['supabaseSession', 'rememberMe'])
clearStoredSessionData ==
    /\ rememberMe' = FALSE
    /\ supabaseSession' = None

\* if (!session || !session.expires_at) return true; return now >= expires_at
isSessionExpired(session) ==
    \/ ~IsSome(session)
    \/ Get(session).expires_at = 0
    \/ now >= Get(session).expires_at

\* the translate handler's final sendResponse
TranslateAnswer(q) ==
    Response(Some(IF q.fromCache = "memory" THEN cache[q.key] ELSE q.translation), None,
             q.fromCache # "no")

\* the miss path after the hosted look-up found nothing
MissPath(q) ==
    IF KeyValid THEN [q EXCEPT !.pc = "fetch"]
    ELSE HFinish(Respond(q, Response(None, Some("API key not configured"), FALSE)))

\* what the caller of restoreSession or ensureAuthenticated does with the
\* result, up to its next call to the backend; cs is the client's session
Continue(q, result, cs) ==
    CASE q.ret = "getSession" ->
            IF result
            THEN HFinish(Respond(q, AuthResponse(TRUE,
                                     IF IsSome(cs) THEN Some(Get(cs).user) ELSE None, None)))
            ELSE HFinish(Respond(q, AuthResponse(FALSE, None,
                                                 Some("Could not restore session"))))
      [] q.ret = "check" ->
            IF result /\ IsSome(cs)
            THEN [q EXCEPT !.pc = "query", !.userId = Some(Get(cs).user)]
            ELSE MissPath(q)
      [] OTHER ->
            IF result /\ IsSome(cs)
            THEN [q EXCEPT !.pc = "insert", !.userId = Some(Get(cs).user)]
            ELSE HFinish(Respond(q, TranslateAnswer(q)))

\* restoreSession up to its first backend call (setSession)
restoreSession(q) ==
    IF ~rememberMe \/ ~IsSome(supabaseSession)
    THEN Continue(q, FALSE, clientSession)
    ELSE [q EXCEPT !.pc = "setSession", !.stored = supabaseSession,
                   !.expired = isSessionExpired(supabaseSession)]

ensureAuthenticated(q) ==
    IF ~rememberMe THEN Continue(q, FALSE, clientSession)
    ELSE IF IsSome(clientSession) /\ ~isSessionExpired(clientSession)
         THEN Continue(q, TRUE, clientSession)
         ELSE restoreSession(q)

\* what no hosted step changes
HostedFrame ==
    /\ UNCHANGED <<enabled, targetLang, translations, API_KEY, reqs, nextReq, succeeded,
                   saveCalls>>
    /\ UNCHANGED <<viewVars, contentVars>>

\* an auth message arrives; the async function runs up to its first call to
\* the backend
DeliverAuth(p) ==
    /\ p = nextMsg
    /\ p \in Messages
    /\ \E a \in AuthActions, creds \in BOOLEAN, remember \in BOOLEAN, u \in Users :
         /\ (a # "signin" \/ ~creds) => ~remember
         /\ a # "signin" => ~creds
         /\ LET q == [IdleProc EXCEPT !.kind = "auth", !.action = a,
                                       !.afterSignOut = (a = "getSession" /\ signedOut)]
                started ==
                    CASE a = "signin" ->
                            \* if (message.email && message.password)
                            IF creds
                            THEN [q EXCEPT !.pc = "signin", !.user = u, !.remember = remember]
                            ELSE HFinish(q)
                      [] a = "signout" -> [q EXCEPT !.pc = "signout"]
                      [] a = "getSession" ->
                            IF ~rememberMe
                            THEN HFinish(Respond(q, AuthResponse(FALSE, None,
                                                     Some("Remember me not enabled"))))
                            ELSE restoreSession([q EXCEPT !.ret = "getSession"])
                      [] a = "refreshSession" -> [q EXCEPT !.pc = "refresh"]
                      [] OTHER -> HFinish(q)
            IN  /\ procs' = IF a = "signin" /\ creds
                            THEN [i \in Messages |->
                                     IF i = p THEN started
                                     ELSE [procs[i] EXCEPT !.afterSignOut = FALSE]]
                            ELSE [procs EXCEPT ![p] = started]
                /\ signedOut' = IF a = "signin" /\ creds THEN FALSE ELSE signedOut
                /\ auth' = IF a = "signout"
                           THEN [user |-> None, epoch |-> auth.epoch + 1, remember |-> FALSE]
                           ELSE auth
    /\ nextMsg' = nextMsg + 1
    /\ UNCHANGED <<rememberMe, supabaseSession, clientSession, flashcards, cache, now>>
    /\ HostedFrame

\* handleSignIn after signInWithPassword
SignInResult(p) ==
    /\ procs[p].pc = "signin"
    /\ LET q == procs[p]
       IN  \E outcome \in {"ok", "error"} :
             IF outcome = "ok"
             THEN /\ clientSession' = Some(Session(q.user))
                  /\ IF q.remember
                     THEN rememberMe' = TRUE /\ supabaseSession' = Some(Session(q.user))
                     ELSE UNCHANGED <<rememberMe, supabaseSession>>
                  /\ procs' = [procs EXCEPT ![p] =
                         HFinish(Respond(q, AuthResponse(TRUE, Some(q.user), None)))]
                  /\ auth' = [user |-> Some(q.user), epoch |-> auth.epoch + 1,
                              remember |-> q.remember]
             ELSE /\ clearStoredSessionData
                  /\ procs' = [procs EXCEPT ![p] =
                         HFinish(Respond(q, AuthResponse(FALSE, None, Some("sign in error"))))]
                  /\ UNCHANGED <<clientSession, auth>>
    /\ UNCHANGED <<flashcards, cache, now, nextMsg, signedOut>>
    /\ HostedFrame

\* handleSignOut after supabase.auth.signOut: on an error the catch block
\* answers and leaves storage alone; what the client library then holds is
\* not decided by this code
SignOutResult(p) ==
    /\ procs[p].pc = "signout"
    /\ LET q == procs[p]
       IN  \E outcome \in {"ok", "error"} :
             IF outcome = "ok"
             THEN /\ clientSession' = None
                  /\ clearStoredSessionData
                  /\ procs' = [procs EXCEPT ![p] =
                         HFinish(Respond(q, AuthResponse(TRUE, None, None)))]
             ELSE /\ clientSession' \in {clientSession, None}
                  /\ UNCHANGED <<rememberMe, supabaseSession>>
                  /\ procs' = [procs EXCEPT ![p] =
                         HFinish(Respond(q, AuthResponse(FALSE, None, Some("sign out error"))))]
    /\ signedOut' = TRUE
    /\ UNCHANGED <<flashcards, cache, now, nextMsg, auth>>
    /\ HostedFrame

\* what supabase.auth.refreshSession can answer: a session only when the
\* client holds one to refresh
RefreshOutcomes ==
    {"error", "none", "throw"} \cup (IF IsSome(clientSession) THEN {"session"} ELSE {})

\* handleRefreshSession after refreshSession
RefreshResult(p) ==
    /\ procs[p].pc = "refresh"
    /\ LET q == procs[p]
       IN  \E outcome \in RefreshOutcomes :
             CASE outcome = "session" ->
                    LET s == Session(Get(clientSession).user)
                    IN  /\ clientSession' = Some(s)
                        /\ supabaseSession' = Some(s)
                        /\ UNCHANGED rememberMe
                        /\ procs' = [procs EXCEPT ![p] =
                               HFinish(Respond(q, AuthResponse(TRUE, Some(s.user), None)))]
               [] outcome = "error" ->
                    /\ clearStoredSessionData
                    /\ UNCHANGED clientSession
                    /\ procs' = [procs EXCEPT ![p] =
                           HFinish(Respond(q, AuthResponse(FALSE, None, Some("refresh error"))))]
               [] outcome = "none" ->
                    /\ UNCHANGED <<rememberMe, supabaseSession, clientSession>>
                    /\ procs' = [procs EXCEPT ![p] =
                           HFinish(Respond(q, AuthResponse(FALSE, None,
                                                           Some("No session after refresh"))))]
               [] OTHER ->
                    /\ UNCHANGED <<rememberMe, supabaseSession, clientSession>>
                    /\ procs' = [procs EXCEPT ![p] =
                           HFinish(Respond(q, AuthResponse(FALSE, None,
                                                           Some("Unknown refresh error"))))]
    /\ UNCHANGED <<flashcards, cache, now, nextMsg, signedOut, auth>>
    /\ HostedFrame

\* restoreSession after setSession
RestoreSet(p) ==
    /\ procs[p].pc = "setSession"
    /\ LET q == procs[p]
       IN  \E outcome \in {"ok", "error", "throw"} :
             CASE outcome = "ok" ->
                    /\ clientSession' = q.stored
                    /\ UNCHANGED <<rememberMe, supabaseSession>>
                    /\ procs' = [procs EXCEPT ![p] =
                           IF q.expired THEN [q EXCEPT !.pc = "restoreRefresh"]
                           ELSE Continue(q, TRUE, q.stored)]
               [] outcome = "error" ->
                    /\ clearStoredSessionData
                    /\ UNCHANGED clientSession
                    /\ procs' = [procs EXCEPT ![p] = Continue(q, FALSE, clientSession)]
               [] OTHER ->
                    /\ UNCHANGED <<rememberMe, supabaseSession, clientSession>>
                    /\ procs' = [procs EXCEPT ![p] = Continue(q, FALSE, clientSession)]
    /\ UNCHANGED <<flashcards, cache, now, nextMsg, signedOut, auth>>
    /\ HostedFrame

\* restoreSession after refreshSession
RestoreRefresh(p) ==
    /\ procs[p].pc = "restoreRefresh"
    /\ LET q == procs[p]
       IN  \E outcome \in RefreshOutcomes :
             CASE outcome = "session" ->
                    LET s == Session(Get(clientSession).user)
                    IN  /\ clientSession' = Some(s)
                        /\ supabaseSession' = Some(s)
                        /\ UNCHANGED rememberMe
                        /\ procs' = [procs EXCEPT ![p] = Continue(q, TRUE, Some(s))]
               [] outcome = "error" ->
                    /\ clearStoredSessionData
                    /\ UNCHANGED clientSession
                    /\ procs' = [procs EXCEPT ![p] = Continue(q, FALSE, clientSession)]
               [] OTHER ->
                    /\ UNCHANGED <<rememberMe, supabaseSession, clientSession>>
                    /\ procs' = [procs EXCEPT ![p] = Continue(q, FALSE, clientSession)]
    /\ UNCHANGED <<flashcards, cache, now, nextMsg, signedOut, auth>>
    /\ HostedFrame

\* setInterval(refreshSessionIfNeeded): the timer fires
refreshSessionIfNeeded(p) ==
    /\ p = nextMsg
    /\ p \in Messages
    /\ LET q == [IdleProc EXCEPT !.kind = "timer"]
           expiresSoon == Get(clientSession).expires_at - now < ExpiresSoon
       IN  procs' = [procs EXCEPT ![p] =
               IF rememberMe /\ IsSome(clientSession) /\ expiresSoon
               THEN [q EXCEPT !.pc = "timerRefresh"]
               ELSE HFinish(q)]
    /\ nextMsg' = nextMsg + 1
    /\ UNCHANGED <<rememberMe, supabaseSession, clientSession, flashcards, cache, now,
                   signedOut, auth>>
    /\ HostedFrame

\* refreshSessionIfNeeded after refreshSession
TimerRefreshResult(p) ==
    /\ procs[p].pc = "timerRefresh"
    /\ \E outcome \in RefreshOutcomes :
         IF outcome = "session"
         THEN LET s == Session(Get(clientSession).user)
              IN  /\ clientSession' = Some(s)
                  /\ supabaseSession' = Some(s)
         ELSE UNCHANGED <<clientSession, supabaseSession>>
    /\ procs' = [procs EXCEPT ![p] = HFinish(@)]
    /\ UNCHANGED <<rememberMe, flashcards, cache, now, nextMsg, signedOut, auth>>
    /\ HostedFrame

\* a translate message arrives: the listener asks storage for the settings
DeliverTranslate(p) ==
    /\ p = nextMsg
    /\ p \in Messages
    /\ \E t \in HostedTexts, w \in HighlightedWords :
         procs' = [procs EXCEPT ![p] =
             [IdleProc EXCEPT !.kind = "translate", !.pc = "config", !.msgText = t,
                              !.highlightedWord = w, !.pageUrl = UrlA,
                              !.epoch = auth.epoch]]
    /\ nextMsg' = nextMsg + 1
    /\ UNCHANGED <<rememberMe, supabaseSession, clientSession, flashcards, cache, now,
                   signedOut, auth>>
    /\ HostedFrame

\* the settings arrive: disabled, empty text, cache hit (saveTranslation), or
\* checkSupabaseCache; both begin with ensureAuthenticated
HostedOnConfig(p) ==
    /\ procs[p].pc = "config"
    /\ LET q == procs[p]
           text == Trim(OrElse(q.msgText, <<>>))
           lang == ToLowerCase(OrElse(StoredTargetLang, DEFAULT_TARGET_LANG))
           word == OrElse(q.highlightedWord, text)
           key == cacheKey(word, lang)
           q1 == [q EXCEPT !.text = text, !.word = word, !.key = key,
                           !.sawEnabled = StoredEnabled,
                           !.msgText = None, !.highlightedWord = None]
       IN  procs' = [procs EXCEPT ![p] =
               IF ~StoredEnabled
               THEN HFinish(Respond(q1, Response(None, Some("Extension is disabled"), FALSE)))
               ELSE IF text = <<>>
               THEN HFinish(Respond(q1, Response(Some(<<>>), None, FALSE)))
               ELSE IF CacheHit(key)
               THEN ensureAuthenticated([q1 EXCEPT !.translation = cache[key],
                                                   !.fromCache = "memory", !.ret = "save"])
               ELSE ensureAuthenticated([q1 EXCEPT !.ret = "check"])]
    /\ UNCHANGED <<rememberMe, supabaseSession, clientSession, flashcards, cache, now,
                   nextMsg, signedOut, auth>>
    /\ HostedFrame

\* the operations on the hosted store the popup asks for by message
FlashcardsActions == {"list", "delete", "clearAll"}

\* a flashcards message arrives: its type is neither 'auth' nor 'translate',
\* so the listener runs no branch, calls nothing and returns undefined
DeliverFlashcards(p) ==
    /\ p = nextMsg
    /\ p \in Messages
    /\ \E a \in FlashcardsActions :
         procs' = [procs EXCEPT ![p] =
             HFinish([IdleProc EXCEPT !.kind = "flashcards", !.action = a])]
    /\ nextMsg' = nextMsg + 1
    /\ UNCHANGED <<rememberMe, supabaseSession, clientSession, flashcards, cache, now,
                   signedOut, auth>>
    /\ HostedFrame

\* checkSupabaseCache after the select: the latest row of this user for the
\* word, whatever its language; an error or no row gives null
checkSupabaseCache(p) ==
    /\ procs[p].pc = "query"
    /\ LET q == procs[p]
           Mine(row) == row.original = q.word /\ Some(row.user_id) = q.userId
           rows == SelectSeq(flashcards, Mine)
       IN  \E outcome \in {"error"} \cup (IF rows # <<>> THEN {"data"} ELSE {}) :
             LET found == IF outcome = "data" THEN rows[Len(rows)].translation ELSE <<>>
             IN  IF found # <<>>
                 THEN /\ cache' = (q.key :> found) @@ cache
                      /\ procs' = [procs EXCEPT ![p] =
                             ensureAuthenticated([q EXCEPT !.translation = found,
                                                           !.fromCache = "hosted",
                                                           !.ret = "save",
                                                           !.userId = None])]
                 ELSE /\ UNCHANGED cache
                      /\ procs' = [procs EXCEPT ![p] = MissPath([q EXCEPT !.userId = None])]
    /\ UNCHANGED <<rememberMe, supabaseSession, clientSession, flashcards, now, nextMsg,
                   signedOut, auth>>
    /\ HostedFrame

\* what the provider can answer to the hosted relay, which does not look at
\* the status: a body with or without translations, or a rejection
HostedProviderOutcomes ==
    {[kind |-> "throw", text |-> <<>>], [kind |-> "empty", text |-> <<>>],
     [kind |-> "text", text |-> <<"x">>]}

\* the provider answers: cache, then saveTranslation
HostedOnFetch(p) ==
    /\ procs[p].pc = "fetch"
    /\ \E o \in HostedProviderOutcomes :
         LET q == procs[p]
             translation == IF o.kind = "text" THEN o.text ELSE <<"[translation error]">>
         IN  IF o.kind = "throw"
             THEN /\ procs' = [procs EXCEPT ![p] =
                         HFinish(Respond(q, Response(Some(<<"[error]">>), None, FALSE)))]
                  /\ UNCHANGED cache
             ELSE /\ cache' = (q.key :> translation) @@ cache
                  /\ procs' = [procs EXCEPT ![p] =
                         ensureAuthenticated([q EXCEPT !.translation = translation,
                                                       !.ret = "save"])]
    /\ UNCHANGED <<rememberMe, supabaseSession, clientSession, flashcards, now, nextMsg,
                   signedOut, auth>>
    /\ HostedFrame

FlashcardRow(userId, original, translation, url, lang) ==
    [user_id |-> userId, original |-> original, translation |-> translation, url |-> url,
     translation_language |-> lang]

\* saveTranslation after the insert: an error is logged and nothing more
HostedInsert(p) ==
    /\ procs[p].pc = "insert"
    /\ LET q == procs[p]
           lang == SubSeq(q.key, Len(q.word) + 2, Len(q.key))
       IN  \E outcome \in {"ok", "error"} :
             IF outcome = "ok"
             THEN /\ flashcards' = Append(flashcards,
                        FlashcardRow(Get(q.userId), q.word, q.translation, q.pageUrl, lang))
                  /\ procs' = [procs EXCEPT ![p] =
                         HFinish(Respond([q EXCEPT !.inserted = @ + 1], TranslateAnswer(q)))]
             ELSE /\ UNCHANGED flashcards
                  /\ procs' = [procs EXCEPT ![p] =
                         HFinish(Respond([q EXCEPT !.insertFailed = TRUE], TranslateAnswer(q)))]
    /\ UNCHANGED <<rememberMe, supabaseSession, clientSession, cache, now, nextMsg,
                   signedOut, auth>>
    /\ HostedFrame

\* time passes
HostedTick ==
    /\ now < MaxHostedClock
    /\ now' = now + 1
    /\ UNCHANGED <<rememberMe, supabaseSession, clientSession, flashcards, procs, nextMsg,
                   cache, signedOut, auth>>
    /\ HostedFrame

\* a fresh install: nothing remembered, nobody signed in
HostedIdle ==
    /\ rememberMe = FALSE
    /\ supabaseSession = None
    /\ clientSession = None
    /\ flashcards = <<>>
    /\ procs = [p \in Messages |-> IdleProc]
    /\ nextMsg = 1
    /\ signedOut = FALSE
    /\ auth = [user |-> None, epoch |-> 0, remember |-> FALSE]

HostedInit ==
    /\ enabled \in {None, Some(FALSE)}
    /\ targetLang = None
    /\ translations = <<>>
    /\ API_KEY \in HostedKeys
    /\ cache = <<>>
    /\ reqs = [r \in Requests |-> IdleReq]
    /\ nextReq = 1
    /\ now = 1
    /\ succeeded = {}
    /\ saveCalls = 0
    /\ ViewClosed
    /\ ContentIdle
    /\ HostedIdle

HostedNext ==
    \/ \E p \in Messages : DeliverAuth(p)
    \/ \E p \in Messages : SignInResult(p)
    \/ \E p \in Messages : SignOutResult(p)
    \/ \E p \in Messages : RefreshResult(p)
    \/ \E p \in Messages : RestoreSet(p)
    \/ \E p \in Messages : RestoreRefresh(p)
    \/ \E p \in Messages : refreshSessionIfNeeded(p)
    \/ \E p \in Messages : TimerRefreshResult(p)
    \/ \E p \in Messages : DeliverTranslate(p)
    \/ \E p \in Messages : HostedOnConfig(p)
    \/ \E p \in Messages : checkSupabaseCache(p)
    \/ \E p \in Messages : HostedOnFetch(p)
    \/ \E p \in Messages : HostedInsert(p)
    \/ \E p \in Messages : DeliverFlashcards(p)
    \/ HostedTick

SpecHosted == HostedInit /\ [][HostedNext]_vars

(* The hosted relay while the popup changes the target language; the clock *)
(* stands still, so no session expires and the refresh timer has nothing  *)
(* to do.                                                                  *)

LangInit ==
    /\ HostedInit
    /\ enabled = None
    /\ API_KEY = <<"k">>

LangNext ==
    \/ \E p \in Messages : DeliverAuth(p)
    \/ \E p \in Messages : SignInResult(p)
    \/ \E p \in Messages : SignOutResult(p)
    \/ \E p \in Messages : RefreshResult(p)
    \/ \E p \in Messages : RestoreSet(p)
    \/ \E p \in Messages : DeliverTranslate(p)
    \/ \E p \in Messages : HostedOnConfig(p)
    \/ \E p \in Messages : checkSupabaseCache(p)
    \/ \E p \in Messages : HostedOnFetch(p)
    \/ \E p \in Messages : HostedInsert(p)
    \/ changeTargetLang

SpecLang == LangInit /\ [][LangNext]_vars

---------------------------------------------------------------------------
(* Initial states and steps of the local relay *)

Init ==
    /\ enabled \in {None, Some(TRUE), Some(FALSE)}
    /\ targetLang \in StoredLangs
    /\ translations = <<>>
    /\ API_KEY \in ApiKeys
    /\ cache = <<>>
    /\ reqs = [r \in Requests |-> IdleReq]
    /\ nextReq = 1
    /\ now = 1
    /\ succeeded = {}
    /\ saveCalls = 0
    /\ ViewClosed
    /\ ContentIdle
    /\ HostedIdle

Next ==
    \/ \E r \in Requests : Deliver(r)
    \/ \E r \in Requests : OnConfig(r)
    \/ \E r \in Requests : OnFetch(r)
    \/ \E r \in Requests : SaveGet(r)
    \/ \E r \in Requests : SaveSet(r)
    \/ toggleExtension
    \/ changeTargetLang
    \/ Tick

Spec == Init /\ [][Next]_vars

---------------------------------------------------------------------------
(* Sequential saves: saveTranslation called N times, each call finished    *)
(* before the next starts, on an empty list.  Record n carries date n.     *)

MaxSeqSaves == 105

SeqRecord(n) == TranslationRecord(<<"a">>, <<"x">>, n, UrlA)

SeqInit ==
    /\ Init
    /\ enabled = None
    /\ targetLang = None
    /\ API_KEY = <<"k">>

SeqSave ==
    /\ saveCalls < MaxSeqSaves
    /\ saveCalls' = saveCalls + 1
    /\ translations' = saveTranslation(translations, <<"a">>, <<"x">>, UrlA,
                                       saveCalls + 1)
    /\ UNCHANGED <<enabled, targetLang, API_KEY, cache, reqs, nextReq, now, succeeded>>
    /\ UNCHANGED <<viewVars, hostedVars, contentVars>>

SpecSeq == SeqInit /\ [][SeqSave]_vars

---------------------------------------------------------------------------
(* The flashcard view: src/pages/new-tab/src/Flashcard.tsx *)

MaxImports == 1
MaxFileLen == 2
MaxDeletions == 1

Schemes == {"http://", "https://", "file://"}
DailyDomain == "Daily Words"

Range(s) == {s[i] : i \in 1..Len(s)}

\* getDomain: the URL's hostname without a leading "www."
getDomain(url) ==
    IF url = <<>> THEN "Unknown Site"
    ELSE LET rest == IF Head(url) \in Schemes THEN Tail(url) ELSE url
             host == IF rest # <<>> /\ Head(rest) = "www." THEN Tail(rest) ELSE rest
         IN  IF host # <<>> THEN Head(host)
             ELSE IF "chrome-extension://" \in Range(url) THEN "Extension Pages"
             ELSE "Unknown Site"

DomainOf(t) == IF t.url # <<>> THEN getDomain(t.url) ELSE "Unknown Site"

\* the link of a group: the URL of the record that created it
siteUrl(url) ==
    IF url = <<>> THEN <<"#">>
    ELSE IF Head(url) \in {"http://", "https://"} THEN url
    ELSE IF "chrome-extension://" \notin Range(url) THEN <<"https://">> \o url
    ELSE <<"#">>

\* id: translation.id || `translation-${index}`
WithIds(list) ==
    [i \in 1..Len(list) |->
        [list[i] EXCEPT !.id = IF IsSome(@) THEN @ ELSE Some(<<"translation-", i - 1>>)]]

\* the keys of the groups object, in insertion order
DomainsOf(list) ==
    LET ds == {DomainOf(list[i]) : i \in 1..Len(list)}
        FirstOf(d) == CHOOSE i \in 1..Len(list) :
                          /\ DomainOf(list[i]) = d
                          /\ \A j \in 1..(i - 1) : DomainOf(list[j]) # d
        Rank(d) == Cardinality({e \in ds : FirstOf(e) <= FirstOf(d)})
    IN  [k \in 1..Cardinality(ds) |-> CHOOSE d \in ds : Rank(d) = k]

GroupOf(list, d) ==
    LET Mine(t) == DomainOf(t) = d
        ts == SelectSeq(list, Mine)
    IN  [domain |-> d, url |-> siteUrl(ts[1].url), translations |-> ts, visible |-> TRUE]

\* Math.max(...translations.map(t => new Date(t.date).getTime()))
Latest(g) ==
    LET dates == {g.translations[i].date : i \in 1..Len(g.translations)}
    IN  CHOOSE m \in dates : \A d \in dates : d <= m

\* Array.prototype.sort((a, b) => latestB - latestA): stable, latest first
InsertGroup(sorted, g) ==
    LET n == Cardinality({i \in 1..Len(sorted) : Latest(sorted[i]) >= Latest(g)})
    IN  SubSeq(sorted, 1, n) \o <<g>> \o SubSeq(sorted, n + 1, Len(sorted))

RECURSIVE SortByLatest(_)
SortByLatest(gs) ==
    IF gs = <<>> THEN <<>>
    ELSE InsertGroup(SortByLatest(SubSeq(gs, 1, Len(gs) - 1)), gs[Len(gs)])

groupTranslationsBySite(list) ==
    LET w == WithIds(list)
        ds == DomainsOf(w)
    IN  SortByLatest([i \in 1..Len(ds) |-> GroupOf(w, ds[i])])

\* the property names an object literal inherits from Object.prototype that
\* a hostname, which is lower case, can spell
InheritedKeys == {"constructor", "__proto__"}

\* if (!groups[domain]) on const groups = {}: for an inherited name the
\* look-up finds Object.prototype's member, no group is created, and
\* groups[domain].translations.push(...) throws a TypeError
GroupingThrows(list) == \E i \in 1..Len(list) : DomainOf(list[i]) \in InheritedKeys

\* siteGroups.flatMap(group => group.translations.map(({ ...rest }) => rest))
RECURSIVE Flatten(_)
Flatten(gs) == IF gs = <<>> THEN <<>> ELSE gs[1].translations \o Flatten(Tail(gs))

\* toISOString().split('T')[0]: the clock of the model counts days
DayOf(date) == date

\* loadDailyWords: today's records, relabelled
DailyWordsOf(list) ==
    LET Today(t) == DayOf(t.date) = DayOf(now)
        ts == SelectSeq(list, Today)
    IN  [i \in 1..Len(ts) |->
            [original |-> ts[i].original, translation |-> ts[i].translation, date |-> now,
             url |-> <<"daily-words">>, id |-> Some(<<"daily-", i>>)]]

DailyGroup(words) ==
    [domain |-> DailyDomain, url |-> <<"#">>, translations |-> words, visible |-> TRUE]

\* siteGroups.find(group => group.domain === 'Daily Words')
FindDaily(gs) ==
    LET Daily(g) == g.domain = DailyDomain
        found == SelectSeq(gs, Daily)
    IN  IF found = <<>> THEN None ELSE Some(found[1])

(* Files offered to importFlashcards *)

FileItem(original, translation, date, url, id) ==
    [isNull |-> FALSE, original |-> original, translation |-> translation, date |-> date,
     url |-> url, id |-> id]

FileItems ==
    {FileItem(Some(<<"a">>), Some(<<"x">>), Some(1), UrlA, None),
     FileItem(Some(<<"b">>), Some(<<"y">>), Some(2), <<>>, Some(<<"translation-", 0>>)),
     FileItem(None, Some(<<"x">>), Some(1), UrlA, None),
     FileItem(Some(<<"a">>), Some(<<>>), Some(1), UrlA, None),
     FileItem(Some(<<"a">>), Some(<<"x">>), None, UrlA, None),
     FileItem(Some(<<"a">>), Some(<<"x">>), Some(0), UrlA, None),
     [FileItem(None, None, None, <<>>, None) EXCEPT !.isNull = TRUE]}

RECURSIVE SeqsUpTo(_, _)
SeqsUpTo(S, n) ==
    IF n = 0 THEN {<<>>}
    ELSE LET shorter == SeqsUpTo(S, n - 1)
         IN  shorter \cup {Append(q, x) : q \in shorter, x \in S}

NoFile == [kind |-> "none", items |-> <<>>, daily |-> None]

Files ==
    {[kind |-> "unparsable", items |-> <<>>, daily |-> None],
     [kind |-> "notArray", items |-> <<>>, daily |-> None]}
    \cup {[kind |-> "array", items |-> q, daily |-> None] : q \in SeqsUpTo(FileItems, MaxFileLen)}

\* (mutant: the date is not required)
ItemOk_NoDate(t) ==
    /\ IsSome(t.original) /\ Get(t.original) # <<>>
    /\ IsSome(t.translation) /\ Get(t.translation) # <<>>

\* t.original && t.translation && t.date
ItemOk(t) ==
    /\ IsSome(t.original) /\ Get(t.original) # <<>>
    /\ IsSome(t.translation) /\ Get(t.translation) # <<>>
    /\ IsSome(t.date) /\ Get(t.date) # 0

\* translations.every(...): reading a field of null throws
RECURSIVE EveryItemOk(_)
EveryItemOk(items) ==
    IF items = <<>> THEN "true"
    ELSE IF Head(items).isNull THEN "throws"
    ELSE IF ~ItemOk(Head(items)) THEN "false"
    ELSE EveryItemOk(Tail(items))

\* JSON.parse, Array.isArray and every: whether the file is merged
FileAccepted(file) == file.kind = "array" /\ EveryItemOk(file.items) = "true"

\* the try block throws: JSON.parse fails, or every reads a field of null
ParseThrows(file) ==
    \/ file.kind = "unparsable"
    \/ file.kind = "array" /\ EveryItemOk(file.items) = "throws"

\* an accepted element as it is stored
StoredItem(t) ==
    [original |-> Get(t.original), translation |-> Get(t.translation), date |-> Get(t.date),
     url |-> t.url, id |-> t.id]

\* the page is opened: the first render, whose effect asks for the list
OpenView ==
    /\ loadPc = "closed"
    /\ loadPc' = "list"
    /\ UNCHANGED <<siteGroups, loading, dailyWords, closureDaily, importPc, importFile,
                   importMerged, imports, deletions, lastAlert>>
    /\ UNCHANGED <<relayVars, hostedVars, reviewVars, contentVars, translations,
                   now>>

\* the load effect's storage.get callback: group, start loadDailyWords, show
LoadCallback ==
    /\ loadPc = "list"
    /\ IF GroupingThrows(translations)
       THEN \* the exception ends the callback: nothing is shown
            /\ loadPc' = "failed"
            /\ UNCHANGED <<siteGroups, loading>>
       ELSE /\ LET groups == groupTranslationsBySite(translations)
               IN  siteGroups' = IF Len(closureDaily) > 0
                                 THEN <<DailyGroup(closureDaily)>> \o groups
                                 ELSE groups
            /\ loading' = FALSE
            /\ loadPc' = "daily"
    /\ UNCHANGED <<dailyWords, closureDaily, importPc, importFile, importMerged, imports,
                   deletions, lastAlert>>
    /\ UNCHANGED <<relayVars, hostedVars, reviewVars, contentVars, translations,
                   now>>

\* loadDailyWords' storage.get callback: setDailyWords with a new array, so
\* the component renders again and the load effect, which depends on
\* dailyWords, runs again
DailyCallback ==
    /\ loadPc = "daily"
    /\ dailyWords' = DailyWordsOf(translations)
    /\ closureDaily' = dailyWords'
    /\ loadPc' = "list"
    /\ UNCHANGED <<siteGroups, loading, importPc, importFile, importMerged, imports,
                   deletions, lastAlert>>
    /\ UNCHANGED <<relayVars, hostedVars, reviewVars, contentVars, translations,
                   now>>

\* a view handler runs only when no storage.set of the view is still to be
\* applied: storage operations of one page are applied in the order issued
ViewIdle == ~loading /\ importPc # "set"

CanDelete == ViewIdle /\ deletions < MaxDeletions

\* importFlashcards: a file is chosen and handed to the FileReader
importFlashcards ==
    /\ ViewIdle
    /\ importPc = "idle"
    /\ imports < MaxImports
    /\ \E f \in Files : importFile' = [f EXCEPT !.daily = FindDaily(siteGroups)]
    /\ importPc' = "read"
    /\ imports' = imports + 1
    /\ UNCHANGED <<siteGroups, loading, dailyWords, closureDaily, loadPc, importMerged,
                   deletions, lastAlert>>
    /\ UNCHANGED <<relayVars, hostedVars, reviewVars, contentVars, translations,
                   now>>

\* reader.onload: parse and validate; a valid file asks storage for the list
ImportOnload ==
    /\ importPc = "read"
    /\ IF FileAccepted(importFile)
       THEN importPc' = "get" /\ UNCHANGED <<importFile, lastAlert>>
       ELSE /\ importPc' = "idle"
            /\ importFile' = NoFile
            /\ lastAlert' = Some(IF ParseThrows(importFile) THEN "Error parsing file"
                                 ELSE "Invalid file format")
    /\ UNCHANGED <<siteGroups, loading, dailyWords, closureDaily, loadPc, importMerged,
                   imports, deletions>>
    /\ UNCHANGED <<relayVars, hostedVars, reviewVars, contentVars, translations,
                   now>>

\* the storage.get callback of the import: merge, regroup, issue storage.set
ImportGet ==
    /\ importPc = "get"
    /\ LET merged == translations \o [i \in 1..Len(importFile.items) |->
                                          StoredItem(importFile.items[i])]
           groups == groupTranslationsBySite(merged)
       IN  IF GroupingThrows(merged)
           THEN \* the exception ends the callback: no storage.set, no alert
                /\ importPc' = "idle"
                /\ importFile' = NoFile
                /\ UNCHANGED <<siteGroups, importMerged, lastAlert>>
           ELSE /\ siteGroups' = IF IsSome(importFile.daily)
                                 THEN <<Get(importFile.daily)>> \o groups
                                 ELSE groups
                /\ importMerged' = merged
                /\ importPc' = "set"
                /\ lastAlert' = Some("Imported")
                /\ UNCHANGED importFile
    /\ UNCHANGED <<loading, dailyWords, closureDaily, loadPc, imports, deletions>>
    /\ UNCHANGED <<relayVars, hostedVars, reviewVars, contentVars, translations,
                   now>>

\* the storage.set of the import is applied
ImportSet ==
    /\ importPc = "set"
    /\ translations' = importMerged
    /\ importPc' = "idle"
    /\ importFile' = NoFile
    /\ importMerged' = <<>>
    /\ UNCHANGED <<siteGroups, loading, dailyWords, closureDaily, loadPc, imports,
                   deletions, lastAlert>>
    /\ UNCHANGED <<relayVars, hostedVars, reviewVars, contentVars, now>>

\* newSiteGroups[siteIndex].translations.filter(card => card.id !== cardId)
WithoutCard(gs, siteIndex, cardId) ==
    LET Keep(card) == card.id # cardId
        NonEmpty(g) == Len(g.translations) > 0
    IN  SelectSeq([gs EXCEPT ![siteIndex].translations = SelectSeq(@, Keep)], NonEmpty)

\* handleDeleteCard(siteIndex, card.id), on the first or the last card of a group
handleDeleteCard ==
    /\ CanDelete
    /\ \E siteIndex \in 1..Len(siteGroups) :
         /\ siteGroups[siteIndex].domain # DailyDomain
         /\ \E c \in {1, Len(siteGroups[siteIndex].translations)} :
              LET filteredGroups ==
                      WithoutCard(siteGroups, siteIndex,
                                  siteGroups[siteIndex].translations[c].id)
              IN  /\ siteGroups' = filteredGroups
                  /\ translations' = Flatten(filteredGroups)
    /\ deletions' = deletions + 1
    /\ UNCHANGED <<loading, dailyWords, closureDaily, loadPc, importPc, importFile,
                   importMerged, imports, lastAlert>>
    /\ UNCHANGED <<relayVars, hostedVars, reviewVars, contentVars, now>>

\* handleDeleteSite(siteIndex), confirmed
handleDeleteSite ==
    /\ CanDelete
    /\ \E siteIndex \in 1..Len(siteGroups) :
         /\ siteGroups[siteIndex].domain # DailyDomain
         /\ LET newSiteGroups ==
                    SubSeq(siteGroups, 1, siteIndex - 1)
                        \o SubSeq(siteGroups, siteIndex + 1, Len(siteGroups))
            IN  /\ siteGroups' = newSiteGroups
                /\ translations' = Flatten(newSiteGroups)
    /\ deletions' = deletions + 1
    /\ UNCHANGED <<loading, dailyWords, closureDaily, loadPc, importPc, importFile,
                   importMerged, imports, lastAlert>>
    /\ UNCHANGED <<relayVars, hostedVars, reviewVars, contentVars, now>>

\* handleClearAll, confirmed
handleClearAll ==
    /\ CanDelete
    /\ siteGroups' = <<>>
    /\ translations' = <<>>
    /\ deletions' = deletions + 1
    /\ UNCHANGED <<loading, dailyWords, closureDaily, loadPc, importPc, importFile,
                   importMerged, imports, lastAlert>>
    /\ UNCHANGED <<relayVars, hostedVars, reviewVars, contentVars, now>>

\* a selection on a page while the view is open
DeliverToView(r) == DeliverFrom(r, {Some(<<"a">>)}, {Some(UrlB)}, {None})

\* records that earlier sessions saved, on the day before
Prefill(n) == [i \in 1..n |-> TranslationRecord(<<"a">>, <<"x">>, 1, UrlA)]

ViewInit ==
    /\ enabled = None
    /\ targetLang = None
    /\ translations \in {<<>>, Prefill(KeepLatest)}
    /\ API_KEY = <<>>
    /\ cache = <<>>
    /\ reqs = [r \in Requests |-> IdleReq]
    /\ nextReq = MaxRequests
    /\ now = MaxClock
    /\ succeeded = {}
    /\ saveCalls = 0
    /\ ViewClosed
    /\ ContentIdle
    /\ HostedIdle

ViewNext ==
    \/ OpenView
    \/ LoadCallback
    \/ DailyCallback
    \/ importFlashcards
    \/ ImportOnload
    \/ ImportGet
    \/ ImportSet
    \/ handleDeleteCard
    \/ handleDeleteSite
    \/ handleClearAll
    \/ \E r \in Requests : DeliverToView(r)
    \/ \E r \in Requests : OnConfig(r)
    \/ \E r \in Requests : SaveGet(r)
    \/ \E r \in Requests : SaveSet(r)

SpecView == ViewInit /\ [][ViewNext]_vars

---------------------------------------------------------------------------
(* The grouping of the stored list when the flashcard page loads *)

MaxGroupLen == 3

\* a missing URL, two sites, a URL without scheme, a host named like a
\* member of Object.prototype
GroupUrls ==
    {<<>>, UrlA, UrlB, <<"a.com", "/q">>, <<"https://", "constructor", "/p">>}

GroupRecords == {TranslationRecord(<<"a">>, <<"x">>, d, u) : d \in 1..MaxClock, u \in GroupUrls}

GroupInit ==
    /\ enabled = None
    /\ targetLang = None
    /\ translations \in SeqsUpTo(GroupRecords, MaxGroupLen)
    /\ API_KEY = <<>>
    /\ cache = <<>>
    /\ reqs = [r \in Requests |-> IdleReq]
    /\ nextReq = MaxRequests
    /\ now = MaxClock
    /\ succeeded = {}
    /\ saveCalls = 0
    /\ ViewClosed
    /\ ContentIdle
    /\ HostedIdle

GroupNext ==
    \/ OpenView
    \/ LoadCallback
    \/ DailyCallback

SpecGroup == GroupInit /\ [][GroupNext]_vars

\* the storage.get callback of the load effect is delivered: under GroupNext
\* this is the step LoadCallback, which always leaves "list"
LoadDelivered == loadPc = "list" /\ loadPc' \in {"daily", "failed"}

\* the same page left alone: the browser delivers every storage callback it
\* owes, and nothing else happens
SpecLoad ==
    /\ GroupInit
    /\ [][GroupNext]_vars
    /\ WF_vars(OpenView) /\ WF_loadPc(LoadDelivered) /\ WF_vars(DailyCallback)

---------------------------------------------------------------------------
(* Review mode of the flashcard view *)

MaxReviewCards == 3

\* [...cards].sort(() => Math.random() - 0.5): the cards in some order
Shuffles(cards) ==
    LET n == Len(cards)
        orders == {f \in [1..n -> 1..n] : \A i, j \in 1..n : f[i] = f[j] => i = j}
    IN  {[i \in 1..n |-> cards[f[i]]] : f \in orders}

\* what no review handler changes
ReviewFrame ==
    /\ UNCHANGED <<siteGroups, loading, dailyWords, closureDaily, loadPc, importPc,
                   importFile, importMerged, imports, deletions, lastAlert>>
    /\ UNCHANGED <<relayVars, hostedVars, contentVars, translations, now>>

\* the Review button of a group, which is disabled for a group without cards
startReview ==
    /\ ~loading
    /\ \E g \in 1..Len(siteGroups) :
         /\ Len(siteGroups[g].translations) > 0
         /\ \E cards \in Shuffles(siteGroups[g].translations) :
              /\ reviewCards' = cards
              /\ reviewTrack' = [group |-> siteGroups[g].translations,
                                 seen |-> <<cards[1]>>, nextOnly |-> TRUE]
         /\ reviewSite' = siteGroups[g].domain
    /\ reviewMode' = TRUE
    /\ currentCardIndex' = 0
    /\ showTranslation' = FALSE
    /\ UNCHANGED isReversed
    /\ ReviewFrame

closeReview ==
    /\ reviewMode
    /\ reviewMode' = FALSE
    /\ reviewCards' = <<>>
    /\ reviewSite' = ""
    /\ currentCardIndex' = 0
    /\ showTranslation' = FALSE
    /\ isReversed' = FALSE
    /\ reviewTrack' = [group |-> <<>>, seen |-> <<>>, nextOnly |-> FALSE]
    /\ ReviewFrame

\* a variant that ends the review one card early
nextCard_EndsEarly ==
    /\ reviewMode
    /\ IF currentCardIndex < Len(reviewCards) - 2
       THEN /\ currentCardIndex' = currentCardIndex + 1
            /\ showTranslation' = FALSE
            /\ reviewTrack' =
                  IF reviewTrack.nextOnly
                  THEN [reviewTrack EXCEPT !.seen = Append(@, reviewCards[currentCardIndex + 2])]
                  ELSE reviewTrack
            /\ UNCHANGED reviewMode
       ELSE /\ reviewMode' = FALSE
            /\ UNCHANGED <<currentCardIndex, showTranslation, reviewTrack>>
    /\ UNCHANGED <<reviewCards, reviewSite, isReversed>>
    /\ ReviewFrame

\* the Next button: the next card, or the end of the review at the last one
nextCard ==
    /\ reviewMode
    /\ IF currentCardIndex < Len(reviewCards) - 1
       THEN /\ currentCardIndex' = currentCardIndex + 1
            /\ showTranslation' = FALSE
            /\ reviewTrack' =
                  IF reviewTrack.nextOnly
                  THEN [reviewTrack EXCEPT !.seen = Append(@, reviewCards[currentCardIndex + 2])]
                  ELSE reviewTrack
            /\ UNCHANGED reviewMode
       ELSE /\ reviewMode' = FALSE
            /\ UNCHANGED <<currentCardIndex, showTranslation, reviewTrack>>
    /\ UNCHANGED <<reviewCards, reviewSite, isReversed>>
    /\ ReviewFrame

\* a variant that steps back without looking at the index
prevCard_Unguarded ==
    /\ reviewMode
    /\ currentCardIndex' = currentCardIndex - 1
    /\ showTranslation' = FALSE
    /\ reviewTrack' = [reviewTrack EXCEPT !.seen = <<>>, !.nextOnly = FALSE]
    /\ UNCHANGED <<reviewMode, reviewCards, reviewSite, isReversed>>
    /\ ReviewFrame

\* the Previous button
prevCard ==
    /\ reviewMode
    /\ IF currentCardIndex > 0
       THEN /\ currentCardIndex' = currentCardIndex - 1
            /\ showTranslation' = FALSE
       ELSE UNCHANGED <<currentCardIndex, showTranslation>>
    /\ reviewTrack' = [reviewTrack EXCEPT !.seen = <<>>, !.nextOnly = FALSE]
    /\ UNCHANGED <<reviewMode, reviewCards, reviewSite, isReversed>>
    /\ ReviewFrame

toggleTranslation ==
    /\ reviewMode
    /\ showTranslation' = ~showTranslation
    /\ reviewTrack' = [reviewTrack EXCEPT !.seen = <<>>, !.nextOnly = FALSE]
    /\ UNCHANGED <<reviewMode, reviewCards, reviewSite, currentCardIndex, isReversed>>
    /\ ReviewFrame

toggleLanguageDirection ==
    /\ reviewMode
    /\ isReversed' = ~isReversed
    /\ showTranslation' = FALSE
    /\ reviewTrack' = [reviewTrack EXCEPT !.seen = <<>>, !.nextOnly = FALSE]
    /\ UNCHANGED <<reviewMode, reviewCards, reviewSite, currentCardIndex>>
    /\ ReviewFrame

ReviewRecords ==
    {TranslationRecord(<<o>>, <<"x">>, 1, u) : o \in {"a", "b"}, u \in {UrlA, <<>>}}

ReviewInit ==
    /\ enabled = None
    /\ targetLang = None
    /\ translations \in SeqsUpTo(ReviewRecords, MaxReviewCards)
    /\ API_KEY = <<>>
    /\ cache = <<>>
    /\ reqs = [r \in Requests |-> IdleReq]
    /\ nextReq = MaxRequests
    /\ now = MaxClock
    /\ succeeded = {}
    /\ saveCalls = 0
    /\ ViewClosed
    /\ ContentIdle
    /\ HostedIdle

ReviewNext ==
    \/ OpenView
    \/ LoadCallback
    \/ DailyCallback
    \/ startReview
    \/ closeReview
    \/ nextCard
    \/ prevCard
    \/ toggleTranslation
    \/ toggleLanguageDirection

SpecReview == ReviewInit /\ [][ReviewNext]_vars

---------------------------------------------------------------------------
(* The content script: src/pages/content/src/matches/example/index.ts,     *)
(* lines 3-71.  The page's clock counts seconds.                           *)

\* setTimeout(..., 5000)
HideAfter == 5

MaxPageClock == 7
MaxTooltips == 3
MaxPending == 2

\* what window.getSelection().toString() can be at a mouseup
Selections == {<<>>, <<" ">>, <<"a">>, <<"b", " ">>}

\* what the sendMessage callback can be called with: undefined, an answer
\* without translation, and answers with an empty, a blank and a real one
ContentResponses ==
    {None, Some([translation |-> None]), Some([translation |-> Some(<<>>)]),
     Some([translation |-> Some(<<" ">>)]), Some([translation |-> Some(<<"x">>)])}

\* what no step of the content script changes
ContentFrame ==
    /\ UNCHANGED <<relayVars, viewVars, hostedVars, translations, now>>

\* document.body without the element the module's tooltip refers to
Detached == bodyTooltips \ (IF IsSome(tooltip) THEN {Get(tooltip)} ELSE {})

\* document.addEventListener("mousedown", ...): removeTooltip()
mousedown ==
    /\ bodyTooltips' = Detached
    /\ tooltip' = None
    /\ UNCHANGED <<timers, lastSelection, sent, pageNow, nextTooltip>>
    /\ ContentFrame

\* document.addEventListener("mouseup", ...)
mouseup ==
    /\ \E raw \in Selections :
         LET selectedText == Trim(raw)
         IN  IF selectedText = <<>>
             THEN lastSelection' = <<>> /\ UNCHANGED sent
             ELSE IF selectedText = lastSelection
                  THEN UNCHANGED <<lastSelection, sent>>
                  ELSE /\ sent < MaxPending
                       /\ lastSelection' = selectedText
                       /\ sent' = sent + 1
    /\ UNCHANGED <<tooltip, bodyTooltips, timers, pageNow, nextTooltip>>
    /\ ContentFrame

\* showTooltip(text, rect) for a text that is not blank: the element is
\* created and attached, and its auto-hide timeout is set
showTooltip ==
    LET div == [id |-> nextTooltip + 1, shownAt |-> pageNow]
    IN  /\ nextTooltip < MaxTooltips
        /\ bodyTooltips' = Detached \cup {div}
        /\ tooltip' = Some(div)
        /\ timers' = timers \cup {[due |-> pageNow + HideAfter, id |-> div.id]}
        /\ nextTooltip' = nextTooltip + 1

\* the callback given to chrome.runtime.sendMessage is called
onResponse ==
    /\ sent > 0
    /\ sent' = sent - 1
    /\ \E response \in ContentResponses :
         IF \/ ~IsSome(response)
            \/ ~IsSome(Get(response).translation)
            \/ Get(Get(response).translation) = <<>>
            \/ Trim(Get(Get(response).translation)) = <<>>
         THEN UNCHANGED <<tooltip, bodyTooltips, timers, nextTooltip>>
         ELSE showTooltip
    /\ UNCHANGED <<lastSelection, pageNow>>
    /\ ContentFrame

\* the callback given to setTimeout runs: it removes whatever element the
\* module's tooltip refers to by then
autoHide ==
    /\ \E t \in timers :
         /\ t.due <= pageNow
         /\ timers' = timers \ {t}
    /\ bodyTooltips' = Detached
    /\ tooltip' = None
    /\ UNCHANGED <<lastSelection, sent, pageNow, nextTooltip>>
    /\ ContentFrame

\* a second passes; a timeout that is due runs first
PageTick ==
    /\ pageNow < MaxPageClock
    /\ \A t \in timers : t.due > pageNow
    /\ pageNow' = pageNow + 1
    /\ UNCHANGED <<tooltip, bodyTooltips, timers, lastSelection, sent, nextTooltip>>
    /\ ContentFrame

ContentInit ==
    /\ enabled = None
    /\ targetLang = None
    /\ translations = <<>>
    /\ API_KEY = <<>>
    /\ cache = <<>>
    /\ reqs = [r \in Requests |-> IdleReq]
    /\ nextReq = 1
    /\ now = 1
    /\ succeeded = {}
    /\ saveCalls = 0
    /\ ViewClosed
    /\ ContentIdle
    /\ HostedIdle

ContentNext ==
    \/ mousedown
    \/ mouseup
    \/ onResponse
    \/ autoHide
    \/ PageTick

SpecContent == ContentInit /\ [][ContentNext]_vars

---------------------------------------------------------------------------
(* Claims on the local relay *)

InFlight(r) == reqs[r].pc \in {"fetch", "saveGet", "saveSet"}

\* C1: once a translate request for (t, L) has completed with a successful
\* provider response, every later request for the same (t, L) that the
\* enabled relay handles is answered from the cache and calls the provider
\* no more.  (The code re-fetches when the cached translation is "".)
C1_LaterRequestsServedFromCache ==
    \A r \in Requests :
        (InFlight(r) /\ reqs[r].key \in reqs[r].after)
            => (~reqs[r].fetched /\ IsSome(reqs[r].resp) /\ Get(reqs[r].resp).fromCache)

\* C3: when every handler has finished, the list holds one record per
\* saveTranslation call (up to the cap), whatever the interleaving.
C3_OneRecordPerSave ==
    (\A r \in Requests : reqs[r].pc \in {"new", "done"})
        => Len(translations) = Min(saveCalls, KeepLatest)

\* C6: a translate request whose settings are read while the stored enabled
\* flag is false is answered, once, with the error "Extension is disabled",
\* and does nothing else, whether or not the cache holds its key.
C6_DisabledAlwaysError ==
    [][\A r \in Requests :
          (reqs[r].pc = "config" /\ reqs'[r].pc # "config" /\ enabled = Some(FALSE))
              => /\ reqs'[r].pc = "done"
                 /\ reqs'[r].resp = Some(Response(None, Some("Extension is disabled"), FALSE))
                 /\ reqs'[r].nresp = 1
                 /\ ~reqs'[r].fetched
                 /\ UNCHANGED <<cache, translations, saveCalls>>]_vars

C6_Witness ==
    \E r \in Requests :
        /\ reqs[r].pc = "done"
        /\ ~reqs[r].sawEnabled
        /\ reqs[r].text # <<>>
        /\ CacheHit(reqs[r].key)
        /\ reqs[r].resp = Some(Response(None, Some("Extension is disabled"), FALSE))

\* C8: after N sequential saves on an empty list, the list is records
\* N - min(N, 100) + 1 .. N in insertion order.
C8_SequentialSavesKeepLatest ==
    LET n == saveCalls
        k == Min(n, KeepLatest)
    IN  translations = [i \in 1..k |-> SeqRecord(n - k + i)]

C8_Witness ==
    /\ saveCalls = 105
    /\ Len(translations) = 100
    /\ translations[1].date = 6
    /\ translations[100].date = 105

---------------------------------------------------------------------------
(* Claims on the flashcard view *)

\* C2: the persisted translations list never holds more than 100 records,
\* after any sequence of relay saves, imports, card deletions, site deletions
\* and clear-all.  (The import writes the merged list without cutting it.)
C2_AtMost100Records == Len(translations) <= KeepLatest

\* an element that lacks a truthy original, translation or date
C9_Lacking(t) ==
    \/ t.isNull
    \/ ~IsSome(t.original) \/ Get(t.original) = <<>>
    \/ ~IsSome(t.translation) \/ Get(t.translation) = <<>>
    \/ ~IsSome(t.date) \/ Get(t.date) = 0

C9_Rejectable(file) ==
    \/ file.kind # "array"
    \/ \E i \in 1..Len(file.items) : C9_Lacking(file.items[i])

\* C9: when the reader hands over a file that is not an array, or an array
\* with an element lacking a truthy original, translation or date, the import
\* ends there: the persisted list and the displayed groups are unchanged and
\* nothing of the file is kept for merging.
C9_InvalidImportRejected ==
    [][(importPc = "read" /\ importPc' # "read" /\ C9_Rejectable(importFile))
          => /\ importPc' = "idle"
             /\ importFile' = NoFile
             /\ IsSome(lastAlert') /\ Get(lastAlert') # "Imported"
             /\ UNCHANGED <<translations, siteGroups, importMerged>>]_vars

C9_Witness ==
    /\ lastAlert = Some("Invalid file format")
    /\ importPc = "idle"
    /\ imports = 1
    /\ Len(translations) = KeepLatest
    /\ siteGroups # <<>>

---------------------------------------------------------------------------
(* Claims on the hosted relay *)

\* C4: every translate or auth message whose handler has run to its end was
\* answered exactly once, and none is answered twice.  (A sign-in message
\* without email or password, and an unknown auth action, get no answer.)
C4_ExactlyOneResponse ==
    \A p \in Messages :
        /\ procs[p].nresp <= 1
        /\ (procs[p].kind \in {"auth", "translate"} /\ procs[p].pc = "done")
               => procs[p].nresp = 1

\* C5: a get-session request made after a sign-out request was handled (and
\* before any new sign-in request) is answered with a failure and no user,
\* whatever the backend answered to the sign-out.  (After a failed sign-out
\* the stored session is still there and is restored.)
C5_NoSessionAfterSignOut ==
    \A p \in Messages :
        (procs[p].action = "getSession" /\ procs[p].pc = "done" /\ procs[p].afterSignOut)
            => /\ ~Get(procs[p].resp).success
               /\ Get(procs[p].resp).user = None

\* C7: without a credential, an enabled relay answers a translate request
\* for a non-blank text t with "[mock] " + t and the local list holds a
\* record of it.  (The hosted relay answers "API key not configured".)
C7_MockWithoutCredential ==
    \A p \in Messages :
        (/\ procs[p].kind = "translate" /\ procs[p].pc = "done"
         /\ ~KeyValid /\ procs[p].sawEnabled /\ procs[p].text # <<>>)
            => /\ procs[p].resp
                     = Some(Response(Some(<<"[mock] ">> \o procs[p].text), None, FALSE))
               /\ \E i \in 1..Len(translations) :
                     translations[i].original = procs[p].text

\* the request was answered with a translation of the provider
Translated(q) ==
    /\ IsSome(q.resp)
    /\ Get(q.resp).error = None
    /\ Get(q.resp).translation = Some(<<"x">>)

\* C10: a translate request that was made and answered with a translation
\* while one and the same sign-in was in force (no sign-out request since,
\* the session not expired), and whose insert the backend did not refuse, has
\* inserted exactly one row under that user.  (With remember unset nothing
\* is inserted: ensureAuthenticated looks at the stored rememberMe flag.)
C10_AuthenticatedSaveInserts ==
    \A p \in Messages :
        (/\ procs[p].kind = "translate" /\ procs[p].pc = "done"
         /\ Translated(procs[p])
         /\ IsSome(auth.user) /\ procs[p].epoch = auth.epoch
         /\ IsSome(clientSession) /\ ~isSessionExpired(clientSession)
         /\ ~procs[p].insertFailed)
            => /\ procs[p].inserted = 1
               /\ \E i \in 1..Len(flashcards) :
                     /\ flashcards[i].user_id = Get(auth.user)
                     /\ flashcards[i].original = procs[p].word

\* C11: a translate request made and answered with a translation of the
\* provider while no user was signed in has its record in the local list and
\* has inserted nothing into the hosted table.  (The hosted relay skips the
\* save when nobody is signed in and never writes the local list.)
C11_UnauthenticatedSavesLocally ==
    \A p \in Messages :
        (/\ procs[p].kind = "translate" /\ procs[p].pc = "done"
         /\ Translated(procs[p])
         /\ auth.user = None /\ procs[p].epoch = auth.epoch
         /\ clientSession = None)
            => /\ procs[p].inserted = 0
               /\ \E i \in 1..Len(translations) :
                     /\ translations[i].original = procs[p].word
                     /\ translations[i].translation = procs[p].translation

\* C12: a translate request answered from the in-memory cache has persisted
\* one record of the word and the cached translation: a row of the hosted
\* table or a record of the local list.  (With nobody signed in the hosted
\* relay answers from the cache and persists nothing.)
C12_CacheHitPersistsRecord ==
    \A p \in Messages :
        (/\ procs[p].kind = "translate" /\ procs[p].pc = "done"
         /\ procs[p].fromCache = "memory"
         /\ IsSome(procs[p].resp) /\ Get(procs[p].resp).fromCache
         /\ ~procs[p].insertFailed)
            => \/ procs[p].inserted = 1
               \/ \E i \in 1..Len(translations) :
                     /\ translations[i].original = procs[p].word
                     /\ Some(translations[i].translation) = Get(procs[p].resp).translation

\* C13: while the signed-in session comes from a sign-in with remember
\* unset, local storage holds neither session tokens nor the rememberMe
\* flag.  (handleRefreshSession stores the refreshed session whatever the
\* flag, and such a sign-in leaves an earlier stored session in place.)
C13_PersistenceIsOptIn ==
    (IsSome(auth.user) /\ ~auth.remember) => (supabaseSession = None /\ ~rememberMe)

\* C14: when a sign-in, sign-out, get-session or refresh-session handler
\* comes back from the backend and answers with success false, the stored
\* session and the rememberMe flag are gone and the answer carries an error
\* message.
C14_AuthFailureClearsSession ==
    [][\A p \in Messages :
          (/\ procs[p].kind = "auth"
           /\ procs[p].pc \in {"signin", "signout", "refresh", "setSession", "restoreRefresh"}
           /\ procs'[p].pc = "done"
           /\ IsSome(procs'[p].resp)
           /\ ~Get(procs'[p].resp).success)
              => /\ ~rememberMe'
                 /\ supabaseSession' = None
                 /\ IsSome(Get(procs'[p].resp).error)]_vars

\* C15: a request whose provider call came back with a non-success status
\* or with a body without translations is answered exactly once, with a
\* placeholder error string in the translation field and no error field.
C15_ProviderFailureIsPlaceholder ==
    \A r \in Requests :
        (reqs[r].pc = "done" /\ reqs[r].outcome \in {"status", "empty"})
            => /\ reqs[r].nresp = 1
               /\ IsSome(reqs[r].resp)
               /\ Get(reqs[r].resp).error = None
               /\ Get(reqs[r].resp).translation =
                      Some(IF reqs[r].outcome = "status"
                           THEN <<"[error: ", "status", "]">>
                           ELSE <<"[translation error: no translations in response]">>)

\* both provider failures have been answered
C15_Witness ==
    /\ \E r \in Requests : reqs[r].pc = "done" /\ reqs[r].outcome = "status"
    /\ \E r \in Requests : reqs[r].pc = "done" /\ reqs[r].outcome = "empty"

\* the message has no text, or its text is made of spaces only
C16_Blank(o) == ~IsSome(o) \/ \A i \in 1..Len(Get(o)) : Get(o)[i] = " "

\* C16: with the extension enabled, the settings callback of a request
\* whose text is empty or only whitespace answers with the translation ""
\* and ends the request; it calls neither the provider nor saveTranslation
\* and leaves the cache and the stored records as they were.
C16_BlankTextHasNoEffect ==
    [][\A r \in Requests :
          (/\ reqs[r].pc = "config"
           /\ reqs'[r].pc # "config"
           /\ StoredEnabled
           /\ C16_Blank(reqs[r].msgText))
              => /\ reqs'[r].pc = "done"
                 /\ reqs'[r].nresp = 1
                 /\ reqs'[r].resp = Some(Response(Some(<<>>), None, FALSE))
                 /\ ~reqs'[r].fetched
                 /\ cache' = cache
                 /\ translations' = translations
                 /\ saveCalls' = saveCalls]_vars

\* a blank request has been answered while the extension was enabled
C16_Witness ==
    \E r \in Requests :
        /\ reqs[r].pc = "done"
        /\ reqs[r].sawEnabled
        /\ reqs[r].text = <<>>
        /\ reqs[r].resp = Some(Response(Some(<<>>), None, FALSE))

\* C17: no step removes a key from the in-memory cache or changes the value
\* a key maps to.
C17_CacheNeverChanges ==
    [][\A k \in DOMAIN cache : k \in DOMAIN cache' /\ cache'[k] = cache[k]]_vars

\* C18: when restoreSession, called by get-session on an expired stored
\* session, comes back from the backend without a refreshed session and
\* get-session answers with success false, the stored session and the
\* rememberMe flag have been removed from local storage.
C18_ExpiredSessionInvalidated ==
    [][\A p \in Messages :
          (/\ procs[p].ret = "getSession"
           /\ procs[p].pc \in {"setSession", "restoreRefresh"}
           /\ procs[p].expired
           /\ procs'[p].pc = "done"
           /\ IsSome(procs'[p].resp)
           /\ ~Get(procs'[p].resp).success)
              => (~rememberMe' /\ supabaseSession' = None)]_vars

\* the groups of the sites, without the group of the daily words
C19_Sites == SelectSeq(siteGroups, LAMBDA g : g.domain # DailyDomain)

\* C19: once the load callback has run on the stored list, the site groups
\* partition the list by domain: every record is in exactly one group, no
\* group is empty, the records of a group have the group's domain, and no
\* two groups have the same domain.
C19_GroupsPartitionInput ==
    loadPc \in {"daily", "failed"} =>
        LET gs == C19_Sites
            w == WithIds(translations)
        IN  /\ \A i \in 1..Len(w) :
                  Cardinality({<<g, j>> \in (1..Len(gs)) \X (1..MaxGroupLen) :
                                  /\ j <= Len(gs[g].translations)
                                  /\ gs[g].translations[j] = w[i]}) = 1
            /\ \A g \in 1..Len(gs) :
                  /\ Len(gs[g].translations) > 0
                  /\ \A j \in 1..Len(gs[g].translations) :
                        /\ DomainOf(gs[g].translations[j]) = gs[g].domain
                        /\ gs[g].translations[j] \in Range(w)
            /\ \A g, h \in 1..Len(gs) : g # h => gs[g].domain # gs[h].domain

\* C20: every flashcards message of the popup (list, delete, clearAll) that
\* the relay's listener has handled was answered once, with an object that
\* has a success field.
C20_FlashcardsAnswered ==
    \A p \in Messages :
        (procs[p].kind = "flashcards" /\ procs[p].pc = "done")
            => /\ procs[p].nresp = 1
               /\ IsSome(procs[p].resp)
               /\ "success" \in DOMAIN Get(procs[p].resp)

\* a stored record without the id the view gives it
C21_Plain(t) == [original |-> t.original, translation |-> t.translation, date |-> t.date,
                 url |-> t.url]

\* the multiset of the records of a list
C21_Bag(list) ==
    LET rs == {C21_Plain(list[i]) : i \in 1..Len(list)}
    IN  [r \in rs |-> Cardinality({i \in 1..Len(list) : C21_Plain(list[i]) = r})]

\* the list without the first record equal to r
C21_Without(list, r) ==
    LET hits == {i \in 1..Len(list) : C21_Plain(list[i]) = r}
    IN  IF hits = {} THEN list
        ELSE LET i == CHOOSE j \in hits : \A k \in hits : j <= k
             IN  SubSeq(list, 1, i - 1) \o SubSeq(list, i + 1, Len(list))

\* the step is handleDeleteCard on card c of group siteIndex
C21_Deletes(siteIndex, c) ==
    /\ CanDelete
    /\ siteGroups[siteIndex].domain # DailyDomain
    /\ c \in {1, Len(siteGroups[siteIndex].translations)}
    /\ deletions' = deletions + 1
    /\ siteGroups' = WithoutCard(siteGroups, siteIndex,
                                 siteGroups[siteIndex].translations[c].id)
    /\ translations' = Flatten(siteGroups')

\* C21: a card deletion in the flashcard view leaves in storage the records
\* that were there immediately before it, minus the record of that card.
C21_DeleteRemovesOneRecord ==
    [][\A siteIndex \in 1..Len(siteGroups) :
          \A c \in 1..Len(siteGroups[siteIndex].translations) :
              C21_Deletes(siteIndex, c) =>
                  C21_Bag(translations') =
                      C21_Bag(C21_Without(translations,
                                  C21_Plain(siteGroups[siteIndex].translations[c])))]_vars

\* the multiset of the cards of a list
C22_Bag(list) ==
    LET cs == {list[i] : i \in 1..Len(list)}
    IN  [c \in cs |-> Cardinality({i \in 1..Len(list) : list[i] = c})]

\* C22: while only Next has been pressed since startReview, the review cards
\* are a permutation of the chosen group's cards; in review mode the
\* translation is hidden and the cards presented so far are the first
\* currentCardIndex + 1 review cards (one at the start, with index 0); and
\* when review mode has ended, the cards presented are the review cards, each
\* once.
C22_NextWalksTheGroup ==
    reviewTrack.nextOnly =>
        /\ C22_Bag(reviewCards) = C22_Bag(reviewTrack.group)
        /\ Len(reviewCards) = Len(reviewTrack.group)
        /\ IF reviewMode
           THEN /\ ~showTranslation
                /\ currentCardIndex < Len(reviewCards)
                /\ reviewTrack.seen = SubSeq(reviewCards, 1, currentCardIndex + 1)
           ELSE reviewTrack.seen = reviewCards

\* a review of MaxReviewCards cards in a shuffled order was walked to its end
C22_Witness ==
    /\ reviewTrack.nextOnly
    /\ ~reviewMode
    /\ Len(reviewTrack.seen) = MaxReviewCards
    /\ reviewTrack.seen # reviewTrack.group

\* C23: whenever review mode is on, currentCardIndex is an index of
\* reviewCards.
C23_IndexInRange ==
    reviewMode => (0 <= currentCardIndex /\ currentCardIndex < Len(reviewCards))

\* the last of several cards is shown, reversed and turned over
C23_Witness ==
    /\ reviewMode
    /\ currentCardIndex > 0
    /\ currentCardIndex = Len(reviewCards) - 1
    /\ isReversed
    /\ showTranslation
    /\ ~reviewTrack.nextOnly

\* C24: the step that receives a provider failure (a non-success status, a
\* body without translations, or a rejected fetch) leaves the cache as it
\* was and does not call saveTranslation.
C24_FailureNotCached ==
    [][\A r \in Requests :
          (/\ reqs[r].pc = "fetch"
           /\ reqs'[r].pc # "fetch"
           /\ reqs'[r].outcome \in {"status", "empty", "throw"})
              => (cache' = cache /\ saveCalls' = saveCalls)]_vars

\* C25: when the hosted look-up of a translate request finds a translation
\* and caches it under the request's key, the row it took it from was stored
\* for the request's target language.
C25_LookupMatchesLanguage ==
    [][\A p \in Messages :
          (procs[p].pc = "query" /\ procs'[p].fromCache = "hosted")
              => LET q == procs[p]
                     Mine(row) == row.original = q.word /\ Some(row.user_id) = q.userId
                     rows == SelectSeq(flashcards, Mine)
                 IN  rows[Len(rows)].translation_language =
                         SubSeq(q.key, Len(q.word) + 2, Len(q.key))]_vars

\* the last sign-out requested has answered with success, no sign-in has
\* succeeded since it was requested, and every sign-in was requested before
\* it and has finished
C26_SignedOut ==
    \E p \in Messages :
        /\ procs[p].action = "signout"
        /\ procs[p].pc = "done"
        /\ procs[p].resp = Some(AuthResponse(TRUE, None, None))
        /\ auth.user = None
        /\ \A i \in Messages :
              /\ procs[i].action = "signout" => i <= p
              /\ procs[i].action = "signin" => (i < p /\ procs[i].pc = "done")

\* C26: once a sign-out has completed successfully and storage holds neither
\* supabaseSession nor rememberMe, no step taken while no sign-in is under
\* way puts either of them back.
C26_SignOutStaysCleared ==
    [][(C26_SignedOut /\ supabaseSession = None /\ ~rememberMe)
          => (supabaseSession' = None /\ ~rememberMe')]_vars

\* C27: with no user action and an unchanging store, the load effect of the
\* opened page comes to rest: from some point on no storage read of the
\* effect or of loadDailyWords is outstanding.
C27_LoadQuiesces == <>[](loadPc \notin {"list", "daily"})

\* C28: the persisted list never holds a Daily Words entry, i.e. a record
\* whose url is 'daily-words'.
C28_NoDailyWordsStored ==
    \A i \in 1..Len(translations) : translations[i].url # <<"daily-words">>

\* C29: the cards the view shows carry pairwise distinct ids.
C29_DistinctIds ==
    LET cards == Flatten(siteGroups)
    IN  Cardinality({cards[i].id : i \in 1..Len(cards)}) = Len(cards)

\* C30: the page holds at most one tooltip, and a tooltip leaves the page
\* only on a mousedown, or once 5 s have passed since it was shown, or when
\* a newer tooltip takes its place.
C30_TooltipStaysVisible ==
    [][/\ Cardinality(bodyTooltips') <= 1
       /\ \A div \in bodyTooltips \ bodyTooltips' :
             \/ mousedown
             \/ pageNow >= div.shownAt + HideAfter
             \/ bodyTooltips' # {}]_vars

====
